---- MODULE Spec2Model ----
(***************************************************************************)
(* Brook SDK client runtime: the Connection session (connection.js), its   *)
(* sockets, timers and promises, and the Package / Channel / Stream layer  *)
(* on top of it (index.js, channel.js, stream.js).                         *)
(*                                                                         *)
(* JavaScript runs one task at a time: one action is one task (a public    *)
(* call, a socket event, a timer callback) together with the promise       *)
(* continuations (microtasks) it queues, which run before the next task.   *)
(* Timers carry no clock here: a pending timer may fire at any moment.     *)
(***************************************************************************)
EXTENDS Integers, Sequences, FiniteSets, TLC

\* ------------------------------------------------------------------ bounds
MaxSockets == 3      \* connection attempts (sockets created) in one run
MaxCalls == 2        \* connect() calls in one run
MaxAttempts == 2     \* backoff.maxAttempts (connection.js:47 sets 20), scaled
MaxQueueSize == 2    \* Connection.maxQueueSize (connection.js:58 sets 10000), scaled
MaxOffset == 2       \* offsets of inbound message frames: 0 (none) .. MaxOffset
MaxChannels == 1     \* Channel objects constructed in one run
PkgSockets == 2      \* connection attempts in one run of the Package layer
PkgCalls == 1        \* connect() calls in one run of the Package layer
ChanSockets == 1     \* connection attempts in one run of the Channel layer
ChanCalls == 1       \* connect() calls in one run of the Channel layer
SendSockets == 1     \* connection attempts in one run of the outbox
SendCalls == 1       \* connect() calls in one run of the outbox
DeliverOffset == 1   \* offsets of the frames given to handlers that throw
MaxObjects == 2      \* Channel objects constructed in a run of the registry
RetrySockets == 4    \* attempts of a run against a server that never authenticates
ManyAttempts == 4    \* backoff.maxAttempts of a session that counts its failures
BackoffAttempts == 4 \* maxAttempts of a backoff policy taken on its own
RandomSteps == 4     \* Math.random() returns k / RandomSteps, 0 <= k < RandomSteps

Topics == {"t1", "t2"}
PkgTopics == {"t1"}    \* the topics of a run of the Package layer
Callbacks == {"cb1", "cb2"}
Payloads == {1, 2, 3}  \* the messages a caller sends: A, B, C

\* --------------------------------------------------------------- constants
DISCONNECTED == "disconnected"
CONNECTING == "connecting"
AUTHENTICATING == "authenticating"
CONNECTED == "connected"
RECONNECTING == "reconnecting"
FAILED == "failed"
UNAUTHORIZED == "unauthorized"

CONNECTION_STATES ==
    {DISCONNECTED, CONNECTING, AUTHENTICATING, CONNECTED, RECONNECTING, FAILED,
     UNAUTHORIZED}

\* Close codes of a close event: the normal closure and any other one.
NORMAL == "1000"
ABNORMAL == "1006"
CloseCodes == {NORMAL, ABNORMAL}

\* Inbound frame types the handshake distinguishes (handleAuthMessage), the
\* last two being its default branch without and with error 'Invalid API key'.
AuthFrames ==
    {"auth_required", "auth_success", "connected", "auth_timeout", "error",
     "heartbeat", "other", "invalid_key"}

VARIABLES
    state,              \* Connection.state
    ws,                 \* Connection.ws: index of the socket, 0 for null
    shouldReconnect,    \* Connection.shouldReconnect
    connectionPromise,  \* Connection.connectionPromise: attempt index, 0 for null
    reconnectTimeoutId, \* "null", "pending" (a live timer) or "dead" (fired / cleared)
    reconnectTimers,    \* number of reconnection timers that are pending
    authTimeoutId,      \* Connection.authTimeoutId: attempt index, 0 for null
    authPromise,        \* Connection.authPromise: attempt index, 0 for null
    heartbeatInterval,  \* Connection.heartbeatInterval: TRUE for a timer id,
                        \* FALSE for null
    heartbeatTimers,    \* number of heartbeat interval timers that run
    maxAttempts,        \* backoff.maxAttempts of the Connection
    isAuthenticated,    \* Connection.isAuthenticated
    attempts,           \* backoff.attempts
    sockets,            \* every attempt made: its socket, its timers, its promises
    calls,              \* every connect() call made: its promise and its outcome
    messageQueue,       \* Connection.messageQueue, oldest first
    channels,           \* Package.channels: topic -> index into chans, 0 if absent
    chans,              \* every Channel constructed, each one a message handler
                        \* of the connection: name, offset, streams
    hasStorage,         \* whether window.localStorage exists in this environment
    localStorage,       \* the stored "<topic>_offset" items, 0 where there is none
    handed,             \* frames passed to Connection.send() in the last task
    wire,               \* frames written to a socket in the last task
    delivered,          \* Stream handlers invoked in the last task
    returned,           \* what the Channel method called in the last task
                        \* returned or threw, "" if none was called
    lastPongTime,       \* Connection.lastPongTime: "now" when the last task
                        \* assigned it the time, "old" otherwise
    subscribed,         \* a callback is registered with onConnectivityChange
    events,             \* the status and clientId of the connectivity events
                        \* that callback observed in the last task, in order
    forwarded,          \* message handlers of the connection invoked in the
                        \* last task
    backoff             \* an ExponentialBackoff taken on its own: its fields,
                        \* and what its last getDelay() call returned or threw

vars ==
    <<state, ws, shouldReconnect, connectionPromise, reconnectTimeoutId,
      reconnectTimers, authTimeoutId, authPromise, heartbeatInterval,
      heartbeatTimers, maxAttempts,
      isAuthenticated, attempts, sockets, calls, messageQueue, channels, chans,
      hasStorage, localStorage, handed, wire, delivered, returned,
      lastPongTime, forwarded, subscribed, events, backoff>>

\* The client as one value, so that a handler is a function from the client
\* before it to the client after it and handlers compose as the code calls them.
\* handed, wire and delivered record what one task puts out: a task starts
\* with them empty.
Cur ==
    [state |-> state, ws |-> ws, shouldReconnect |-> shouldReconnect,
     connectionPromise |-> connectionPromise,
     reconnectTimeoutId |-> reconnectTimeoutId,
     reconnectTimers |-> reconnectTimers, authTimeoutId |-> authTimeoutId,
     authPromise |-> authPromise, heartbeatInterval |-> heartbeatInterval,
     heartbeatTimers |-> heartbeatTimers, maxAttempts |-> maxAttempts,
     isAuthenticated |-> isAuthenticated, attempts |-> attempts,
     sockets |-> sockets, calls |-> calls, messageQueue |-> messageQueue,
     channels |-> channels, chans |-> chans,
     hasStorage |-> hasStorage, localStorage |-> localStorage,
     handed |-> <<>>, wire |-> <<>>, delivered |-> <<>>, returned |-> "",
     lastPongTime |-> "old", forwarded |-> 0,
     subscribed |-> subscribed, events |-> <<>>,
     nsend |-> 0, throws |-> {},
     throwing |-> {}, setItemThrows |-> FALSE, exception |-> FALSE]

\* The client at the start of a task in which the ws.send() calls that
\* Connection.send makes on an open socket throw when their ordinal number in
\* the task is in `throws` (a transmission failure).
CurThrows(throws) == [Cur EXCEPT !.throws = throws]

\* The client at the start of a task in which the stream callbacks in
\* `throwing` throw when they are invoked and localStorage.setItem throws when
\* setItemThrows says so (the storage is full or denied). `exception` is TRUE
\* while an exception propagates up the call stack.
CurThrowing(throwing, setItemThrows) ==
    [Cur EXCEPT !.throwing = throwing, !.setItemThrows = setItemThrows]

\* The transmission failures of one task.
Throws == SUBSET (1..MaxQueueSize)

\* The same for a task that calls ws.send at most n times.
ThrowsOf(n) == {throws \in Throws : throws \subseteq 1..n}

Commit(S) ==
    /\ state' = S.state
    /\ ws' = S.ws
    /\ shouldReconnect' = S.shouldReconnect
    /\ connectionPromise' = S.connectionPromise
    /\ reconnectTimeoutId' = S.reconnectTimeoutId
    /\ reconnectTimers' = S.reconnectTimers
    /\ authTimeoutId' = S.authTimeoutId
    /\ authPromise' = S.authPromise
    /\ heartbeatInterval' = S.heartbeatInterval
    /\ heartbeatTimers' = S.heartbeatTimers
    /\ isAuthenticated' = S.isAuthenticated
    /\ attempts' = S.attempts
    /\ sockets' = S.sockets
    /\ calls' = S.calls
    /\ messageQueue' = S.messageQueue
    /\ channels' = S.channels
    /\ chans' = S.chans
    /\ hasStorage' = S.hasStorage
    /\ localStorage' = S.localStorage
    /\ handed' = S.handed
    /\ wire' = S.wire
    /\ delivered' = S.delivered
    /\ returned' = S.returned
    /\ lastPongTime' = S.lastPongTime
    /\ forwarded' = S.forwarded
    /\ subscribed' = S.subscribed
    /\ events' = S.events
    /\ UNCHANGED <<backoff, maxAttempts>>

\* ------------------------------------------------------ the backoff policy
\* JavaScript numbers are taken as exact fractions <<numerator, denominator>>
\* in lowest terms with a positive denominator.
RECURSIVE GCD(_, _)
GCD(a, b) == IF b = 0 THEN a ELSE GCD(b, a % b)

Abs(a) == IF a < 0 THEN 0 - a ELSE a

Frac(n, d) ==
    LET g == GCD(Abs(n), d)
    IN  <<n \div g, d \div g>>

Num(n) == <<n, 1>>
Plus(x, y) == Frac(x[1] * y[2] + y[1] * x[2], x[2] * y[2])
Times(x, y) == Frac(x[1] * y[1], x[2] * y[2])
Leq(x, y) == x[1] * y[2] <= y[1] * x[2]
MathMin(x, y) == IF Leq(x, y) THEN x ELSE y
MathMax(x, y) == IF Leq(x, y) THEN y ELSE x
MathFloor(x) == x[1] \div x[2]

\* Math.random(): a number in [0, 1).
Randoms == {Frac(k, RandomSteps) : k \in 0..(RandomSteps - 1)}

\* The options a policy is constructed with; 0 stands for an option that is
\* 0 or left out, which `||` replaces alike.
Options ==
    [initialDelay : {Num(0), Num(50), Num(1000)},
     multiplier : {Num(0), Num(2)},
     maxDelay : {Num(0), Num(8000)},
     jitter : {Num(0), Frac(1, 2)}]

\* options.x || d
OrElse(x, d) == IF x = Num(0) THEN d ELSE x

\* ExponentialBackoff.constructor; maxAttempts is BackoffAttempts.
construct(options) ==
    [options |-> options,
     initialDelay |-> OrElse(options.initialDelay, Num(3000)),
     multiplier |-> OrElse(options.multiplier, Frac(3, 2)),
     maxDelay |-> OrElse(options.maxDelay, Num(30000)),
     jitter |-> OrElse(options.jitter, Frac(1, 10)),
     maxAttempts |-> BackoffAttempts,
     attempts |-> 0,
     currentDelay |-> OrElse(options.initialDelay, Num(3000)),
     called |-> "",
     thrown |-> FALSE,
     delay |-> 0,
     reached |-> FALSE]

\* ExponentialBackoff.getDelay that does not clamp the delay (mutant).
getDelayUnclamped(B, random) ==
    IF B.attempts >= B.maxAttempts
    THEN [B EXCEPT !.called = "getDelay", !.thrown = TRUE, !.delay = 0]
    ELSE LET jitterAmount == Times(B.currentDelay, B.jitter)
             jitterOffset ==
                 Times(Plus(Times(random, Num(2)), Num(-1)), jitterAmount)
         IN  [B EXCEPT !.called = "getDelay", !.thrown = FALSE,
                       !.attempts = @ + 1,
                       !.currentDelay =
                           MathMin(Times(B.currentDelay, B.multiplier),
                                   B.maxDelay),
                       !.delay = MathFloor(Plus(B.currentDelay, jitterOffset))]

\* ExponentialBackoff.getDelay that counts the attempt before it checks the
\* limit (mutant).
getDelayCounting(B, random) ==
    IF B.attempts >= B.maxAttempts
    THEN [B EXCEPT !.called = "getDelay", !.thrown = TRUE, !.delay = 0,
                   !.attempts = @ + 1]
    ELSE LET jitterAmount == Times(B.currentDelay, B.jitter)
             jitterOffset ==
                 Times(Plus(Times(random, Num(2)), Num(-1)), jitterAmount)
         IN  [B EXCEPT !.called = "getDelay", !.thrown = FALSE,
                       !.attempts = @ + 1,
                       !.currentDelay =
                           MathMin(Times(B.currentDelay, B.multiplier),
                                   B.maxDelay),
                       !.delay =
                           MathFloor(MathMax(Num(100),
                               MathMin(Plus(B.currentDelay, jitterOffset),
                                       B.maxDelay)))]

\* ExponentialBackoff.getDelay with `random` the value of Math.random()
getDelay(B, random) ==
    IF B.attempts >= B.maxAttempts
    THEN [B EXCEPT !.called = "getDelay", !.thrown = TRUE, !.delay = 0]
    ELSE LET jitterAmount == Times(B.currentDelay, B.jitter)
             jitterOffset ==
                 Times(Plus(Times(random, Num(2)), Num(-1)), jitterAmount)
             delay == MathMax(Num(100),
                              MathMin(Plus(B.currentDelay, jitterOffset),
                                      B.maxDelay))
         IN  [B EXCEPT !.called = "getDelay", !.thrown = FALSE,
                       !.attempts = @ + 1,
                       !.currentDelay =
                           MathMin(Times(B.currentDelay, B.multiplier),
                                   B.maxDelay),
                       !.delay = MathFloor(delay)]

\* ExponentialBackoff.reset
backoffReset(B) ==
    [B EXCEPT !.called = "reset", !.thrown = FALSE, !.delay = 0,
              !.attempts = 0, !.currentDelay = B.initialDelay]

\* ExponentialBackoff.peekNextDelay with `random` the value of Math.random()
peekNextDelay(B, random) ==
    LET delay == MathMin(Times(B.currentDelay, B.multiplier), B.maxDelay)
        jitterAmount == Times(delay, B.jitter)
        jitterOffset ==
            Times(Plus(Times(random, Num(2)), Num(-1)), jitterAmount)
        floored == MathFloor(Plus(delay, jitterOffset))
    IN  [B EXCEPT !.called = "peekNextDelay", !.thrown = FALSE,
                  !.delay = IF floored < 100 THEN 100 ELSE floored]

\* ExponentialBackoff.isMaxAttemptsReached
backoffIsMaxAttemptsReached(B) == B.attempts >= B.maxAttempts

\* ------------------------------------------------------------- the session

\* Package.constructor and Connection.constructor
Constructed ==
    /\ state = DISCONNECTED
    /\ ws = 0
    /\ shouldReconnect = FALSE
    /\ connectionPromise = 0
    /\ reconnectTimeoutId = "null"
    /\ reconnectTimers = 0
    /\ authTimeoutId = 0
    /\ authPromise = 0
    /\ heartbeatInterval = FALSE
    /\ heartbeatTimers = 0
    /\ isAuthenticated = FALSE
    /\ attempts = 0
    /\ sockets = <<>>
    /\ calls = <<>>
    /\ messageQueue = <<>>
    /\ channels = [t \in Topics |-> 0]
    /\ chans = <<>>
    /\ localStorage = [t \in Topics |-> 0]
    /\ handed = <<>>
    /\ wire = <<>>
    /\ delivered = <<>>
    /\ returned = ""
    /\ lastPongTime = "old"
    /\ forwarded = 0
    /\ subscribed = FALSE
    /\ events = <<>>

\* The policy that the other specifications leave alone.
NoBackoff == construct([initialDelay |-> Num(0), multiplier |-> Num(0),
                        maxDelay |-> Num(0), jitter |-> Num(0)])

\* A client in an environment without window.localStorage.
Init ==
    /\ Constructed
    /\ hasStorage = FALSE
    /\ backoff = NoBackoff
    /\ maxAttempts = MaxAttempts

\* A client in either environment.
InitPkg ==
    /\ Constructed
    /\ hasStorage \in BOOLEAN
    /\ backoff = NoBackoff
    /\ maxAttempts = MaxAttempts

\* Outbound frames; timestamps are left out.
Frame(type, channel, arg) == [type |-> type, channel |-> channel, arg |-> arg]
AuthFrame == Frame("auth", "", 0)
HeartbeatFrame == Frame("heartbeat", "", 0)
SubscribeFrame(t, fromOffset) == Frame("subscribe", t, fromOffset)
UnsubscribeFrame(t) == Frame("unsubscribe", t, 0)
PublishFrame(t, p) == Frame("publish", t, p)
Message(p) == Frame("message", "", p)

\* Channel.resubscribe: its body is empty.
resubscribe(S, c) == S

\* Package.resubscribeChannels: resubscribe() of every registered channel
\* that has a stream.
RECURSIVE resubscribeFrom(_, _)
resubscribeFrom(S, ts) ==
    IF ts = {} THEN S
    ELSE LET t == CHOOSE x \in ts : TRUE
             S1 == IF S.channels[t] # 0 /\ Len(S.chans[S.channels[t]].streams) > 0
                   THEN resubscribe(S, S.channels[t])
                   ELSE S
         IN  resubscribeFrom(S1, ts \ {t})

resubscribeChannels(S) == resubscribeFrom(S, Topics)

\* Connection.clientId, generated once by the constructor.
ClientId == "client"

\* The detail of a connectivity event (the timestamp is left out).
Detail(status) == [status |-> status, clientId |-> ClientId]

\* dispatchEvent runs the listeners at once in the order they were added:
\* the one the Package installs (setupConnectionHandlers), then the
\* subscriber's (onConnectivityChange), if there is one.
dispatchEvent(S, detail) ==
    LET S1 == IF detail.status = CONNECTED THEN resubscribeChannels(S) ELSE S
    IN  IF S1.subscribed
        THEN [S1 EXCEPT !.events = Append(@, detail)]
        ELSE S1

\* Connection.setState that dispatches an event whatever the state was
\* (mutant).
setStateAlways(S, newState) ==
    dispatchEvent([S EXCEPT !.state = newState], Detail(newState))

\* Connection.setState
setState(S, newState) ==
    IF S.state # newState
    THEN dispatchEvent([S EXCEPT !.state = newState], Detail(newState))
    ELSE S

\* WebSocket.close() / terminate(): a socket that is connecting or open starts
\* closing; its close event follows as a later task.
wsClose(S, w) ==
    IF S.sockets[w].readyState \in {"CONNECTING", "OPEN"}
    THEN [S EXCEPT !.sockets[w].readyState = "CLOSING"]
    ELSE S

\* clearTimeout(this.authTimeoutId); this.authTimeoutId = null
clearAuthTimeout(S) ==
    IF S.authTimeoutId # 0
    THEN [S EXCEPT !.sockets[S.authTimeoutId].authTimer = FALSE,
                   !.authTimeoutId = 0]
    ELSE S

\* Connection.stopHeartbeat
stopHeartbeat(S) ==
    IF S.heartbeatInterval
    THEN [S EXCEPT !.heartbeatTimers = @ - 1, !.heartbeatInterval = FALSE]
    ELSE S

\* Connection.startHeartbeat
startHeartbeat(S) ==
    [stopHeartbeat(S) EXCEPT !.lastPongTime = "now", !.heartbeatInterval = TRUE,
                             !.heartbeatTimers = @ + 1]

\* Connection.isConnected
isConnected(S) ==
    /\ S.state = CONNECTED
    /\ S.isAuthenticated
    /\ S.ws # 0
    /\ S.sockets[S.ws].readyState = "OPEN"

\* Connection.queueMessage that evicts nothing (mutant).
queueMessageUnbounded(S, frame) ==
    [S EXCEPT !.messageQueue = Append(@, frame)]

\* Connection.queueMessage
queueMessage(S, frame) ==
    LET q == IF Len(S.messageQueue) >= MaxQueueSize
             THEN Tail(S.messageQueue)
             ELSE S.messageQueue
    IN  [S EXCEPT !.messageQueue = Append(q, frame)]

\* Connection.send that writes to the socket whatever the session (mutant).
sendUnchecked(S, frame) ==
    [S EXCEPT !.handed = Append(@, frame), !.wire = Append(@, frame)]

\* Connection.send: ws.send() in a try block whose catch queues the message.
send(S, frame) ==
    LET S1 == [S EXCEPT !.handed = Append(@, frame)]
    IN  IF isConnected(S1)
        THEN LET S2 == [S1 EXCEPT !.nsend = @ + 1]
             IN  IF S2.nsend \in S2.throws
                 THEN queueMessage(S2, frame)
                 ELSE [S2 EXCEPT !.wire = Append(@, frame)]
        ELSE queueMessage(S1, frame)

\* Connection.flushMessageQueue
RECURSIVE sendAll(_, _)
sendAll(S, frames) ==
    IF frames = <<>> THEN S ELSE sendAll(send(S, Head(frames)), Tail(frames))

\* flushMessageQueue without `this.messageQueue = []`.
flushMessageQueueKeeping(S) ==
    IF Len(S.messageQueue) = 0
    THEN S
    ELSE sendAll(S, S.messageQueue)

flushMessageQueue(S) ==
    IF Len(S.messageQueue) = 0
    THEN S
    ELSE sendAll([S EXCEPT !.messageQueue = <<>>], S.messageQueue)

\* ExponentialBackoff.isMaxAttemptsReached
isMaxAttemptsReached(S) == S.attempts >= S.maxAttempts

\* ExponentialBackoff.reset
reset(S) == [S EXCEPT !.attempts = 0]

\* Connection.scheduleReconnection that clears no timer (mutant).
scheduleReconnectionKeeping(S) ==
    IF S.attempts >= S.maxAttempts
    THEN S
    ELSE [S EXCEPT !.attempts = @ + 1,
                   !.reconnectTimeoutId = "pending",
                   !.reconnectTimers = @ + 1]

\* Connection.scheduleReconnection, up to the timer it sets: the timer it
\* replaces is cleared, backoff.getDelay() counts one attempt (it throws when
\* the attempts are exhausted, and then no timer is set).
scheduleReconnection(S) ==
    LET S1 == IF S.reconnectTimeoutId = "pending"
              THEN [S EXCEPT !.reconnectTimers = @ - 1,
                             !.reconnectTimeoutId = "dead"]
              ELSE S
    IN  IF S1.attempts >= S1.maxAttempts
        THEN S1
        ELSE [S1 EXCEPT !.attempts = @ + 1,
                        !.reconnectTimeoutId = "pending",
                        !.reconnectTimers = @ + 1]

\* The continuations of the promise of attempt i once it settles with
\* `outcome` ("true" or "rejected"): connect() clears connectionPromise and
\* hands the outcome to every caller that awaits this promise, and
\* Package.connect() resubscribes the channels when it is true; the
\* reconnection timer's callback schedules the next attempt or gives up.
settle(S, i, outcome) ==
    IF S.sockets[i].promise # "pending"
    THEN S
    ELSE LET S1 == [S EXCEPT !.sockets[i].promise = outcome]
         IN  IF S1.sockets[i].awaiter = "connect"
             THEN LET S2 == [S1 EXCEPT
                               !.connectionPromise = 0,
                               !.calls = [c \in DOMAIN S1.calls |->
                                  IF S1.calls[c].promise = i
                                  THEN [S1.calls[c] EXCEPT !.outcome = outcome]
                                  ELSE S1.calls[c]]]
                  IN  IF outcome = "true" THEN resubscribeChannels(S2) ELSE S2
             ELSE IF outcome = "true"
                  THEN S1
                  ELSE IF ~isMaxAttemptsReached(S1)
                       THEN scheduleReconnection(S1)
                       ELSE setState(S1, FAILED)

\* attemptConnection, onopen: .then of startAuthentication()
authThen(S, i) ==
    settle(flushMessageQueue(startHeartbeat(setState(S, CONNECTED))), i, "true")

\* attemptConnection, onopen: .catch of startAuthentication(). this.ws.close
\* throws when this.ws is null, and the rest of the callback is skipped.
authCatch(S, i) ==
    IF S.ws = 0
    THEN S
    ELSE settle(setState(wsClose(S, S.ws), UNAUTHORIZED), i, "rejected")

\* The handshake promise of attempt i is resolved (ok) or rejected.
settleAuth(S, i, ok) ==
    IF ~S.sockets[i].authPending
    THEN S
    ELSE LET S1 == [S EXCEPT !.sockets[i].authPending = FALSE]
         IN  IF ok THEN authThen(S1, i) ELSE authCatch(S1, i)

\* WebSocket.send throws on a missing socket and on one that is still connecting.
wsSendThrows(S) == S.ws = 0 \/ S.sockets[S.ws].readyState = "CONNECTING"

\* Connection.sendAuthCredentials
sendAuthCredentials(S) ==
    IF wsSendThrows(S)
    THEN IF S.authPromise # 0
         THEN settleAuth([S EXCEPT !.authPromise = 0], S.authPromise, FALSE)
         ELSE S
    ELSE IF S.sockets[S.ws].readyState = "OPEN"
         THEN [S EXCEPT !.wire = Append(@, AuthFrame)]
         ELSE S

\* Connection.startAuthentication, called by the onopen of attempt i
startAuthentication(S, i) ==
    sendAuthCredentials(
        [S EXCEPT !.authPromise = i,
                  !.authTimeoutId = i,
                  !.sockets[i].authPending = TRUE,
                  !.sockets[i].authTimer = TRUE])

\* Connection.handleConnected
handleConnected(S) ==
    LET S1 == clearAuthTimeout(S)
        S2 == [S1 EXCEPT !.isAuthenticated = TRUE]
    IN  IF S2.authPromise # 0
        THEN settleAuth([S2 EXCEPT !.authPromise = 0], S2.authPromise, TRUE)
        ELSE S2

\* Connection.handleAuthError
handleAuthError(S) ==
    LET S1 == clearAuthTimeout(S)
    IN  IF S1.authPromise # 0
        THEN settleAuth([S1 EXCEPT !.authPromise = 0], S1.authPromise, FALSE)
        ELSE S1

\* Connection.handleAuthMessage
handleAuthMessage(S, type) ==
    IF S.authPromise = 0 THEN S
    ELSE CASE type = "auth_required" -> sendAuthCredentials(S)
           [] type = "auth_success" -> S
           [] type = "connected" -> handleConnected(S)
           [] type \in {"auth_timeout", "error"} -> handleAuthError(S)
           [] type = "heartbeat" -> [S EXCEPT !.lastPongTime = "now"]
           [] type = "invalid_key" -> setState(S, UNAUTHORIZED)
           [] OTHER -> S

\* Inbound frames: type, channel ("" when the frame names none) and offset
\* (0 when it carries none); the payload is left out.
Inbound(type, channel, offset) ==
    [type |-> type, channel |-> channel, offset |-> offset]

\* Channel.setOffset
setOffset(S, c, offset) ==
    LET S1 == [S EXCEPT !.chans[c].offset = offset]
    IN  IF S1.hasStorage
        THEN IF S1.setItemThrows
             THEN [S1 EXCEPT !.exception = TRUE]
             ELSE [S1 EXCEPT !.localStorage[S1.chans[c].name] = offset]
        ELSE S1

\* The handler of one stream is invoked with the message.
invoke(S, c, k, m) ==
    [S EXCEPT !.delivered =
        Append(@, [chan |-> c, callback |-> S.chans[c].streams[k],
                   offset |-> m.offset, channel |-> m.channel])]

\* streams.forEach without the try block around the handler: the exception
\* of a handler ends the loop (mutant).
RECURSIVE forEachStreamUncaught(_, _, _, _)
forEachStreamUncaught(S, c, k, m) ==
    IF k > Len(S.chans[c].streams) THEN S
    ELSE IF S.chans[c].streams[k] \in S.throwing
         THEN [invoke(S, c, k, m) EXCEPT !.exception = TRUE]
         ELSE forEachStreamUncaught(invoke(S, c, k, m), c, k + 1, m)

\* Channel.processIncomingMessage, streams.forEach: every stream's handler in
\* the order of the streams map, each in a try block whose catch logs.
RECURSIVE forEachStream(_, _, _, _)
forEachStream(S, c, k, m) ==
    IF k > Len(S.chans[c].streams) THEN S
    ELSE forEachStream(invoke(S, c, k, m), c, k + 1, m)

\* Channel.processIncomingMessage that stores every offset (mutant).
processIncomingMessageAnyOffset(S, c, m) ==
    LET S1 == setOffset(S, c, m.offset)
    IN  IF S1.exception THEN S1 ELSE forEachStream(S1, c, 1, m)

\* Channel.processIncomingMessage: the offset, then every stream's handler.
\* An exception of setOffset leaves the method before the handlers.
processIncomingMessage(S, c, m) ==
    LET S1 == IF m.offset # 0 /\ m.offset > S.chans[c].offset
              THEN setOffset(S, c, m.offset)
              ELSE S
    IN  IF S1.exception THEN S1 ELSE forEachStream(S1, c, 1, m)

\* Channel.handleMessage without the test of the streams (mutant).
channelHandleMessageDormant(S, c, m) ==
    IF m.type = "message" /\ (m.channel = "" \/ m.channel = S.chans[c].name)
    THEN LET m1 == [m EXCEPT !.channel = S.chans[c].name]
         IN  [S |-> processIncomingMessage(S, c, m1), m |-> m1]
    ELSE [S |-> S, m |-> m]

\* Channel.handleMessage of channel object c: the client after it and the
\* frame after it (the handler writes the channel into a frame that has none,
\* and every handler is given the same frame object).
channelHandleMessage(S, c, m) ==
    IF Len(S.chans[c].streams) = 0
    THEN [S |-> S, m |-> m]
    ELSE IF m.type = "message" /\ (m.channel = "" \/ m.channel = S.chans[c].name)
         THEN LET m1 == [m EXCEPT !.channel = S.chans[c].name]
              IN  [S |-> processIncomingMessage(S, c, m1), m |-> m1]
         ELSE [S |-> S, m |-> m]

\* Connection.handleMessage, the forEach over messageHandlers: every Channel
\* constructed is one, in the order of construction, each called in a try
\* block whose catch logs.
RECURSIVE forward(_, _, _)
forward(S, c, m) ==
    IF c > Len(S.chans) THEN S
    ELSE LET r == channelHandleMessage([S EXCEPT !.forwarded = @ + 1], c, m)
         IN  forward([r.S EXCEPT !.exception = FALSE], c + 1, r.m)

\* Connection.handleMessage that forwards every frame but a heartbeat,
\* whatever the session (mutant).
handleMessageUnauthenticated(S, m) ==
    IF m.type = "heartbeat"
    THEN [S EXCEPT !.lastPongTime = "now"]
    ELSE forward(S, 1, m)

\* Connection.handleMessage
handleMessage(S, m) ==
    IF ~S.isAuthenticated
    THEN handleAuthMessage(S, m.type)
    ELSE IF m.type = "heartbeat"
         THEN [S EXCEPT !.lastPongTime = "now"]
         ELSE forward(S, 1, m)

\* Channel.constructor, as Package.createChannel calls it
newChannel(S, t) ==
    [name |-> t,
     offset |-> IF S.hasStorage THEN S.localStorage[t] ELSE 0,
     streams |-> <<>>]

\* Package.createChannel
createChannel(S, t) ==
    IF S.channels[t] # 0
    THEN S
    ELSE [S EXCEPT !.chans = Append(@, newChannel(S, t)),
                   !.channels[t] = Len(S.chans) + 1]

\* Map.set(callback, stream) on the streams of a channel, kept as the keys in
\* the order of the map (a Stream is read through its handler alone, which is
\* its key): a key that is present keeps its place, a new key goes to the end.
mapSet(streams, cb) ==
    IF \E k \in DOMAIN streams : streams[k] = cb
    THEN streams
    ELSE Append(streams, cb)

\* Map.delete(callback)
mapDelete(streams, cb) == SelectSeq(streams, LAMBDA e : e # cb)

\* Stream.start of a Stream constructed with `offset`
start(S, channelName, offset) == send(S, SubscribeFrame(channelName, offset))

\* Channel.stream that subscribes from the start of the topic (mutant).
streamFromStart(S, c, cb) ==
    LET S1 == [S EXCEPT !.chans[c].streams = mapSet(@, cb)]
    IN  [start(S1, S1.chans[c].name, 0) EXCEPT !.returned = "unsubscribe"]

\* Channel.stream; it returns the function that unsubscribes cb.
stream(S, c, cb) ==
    LET offset == S.chans[c].offset
        S1 == [S EXCEPT !.chans[c].streams = mapSet(@, cb)]
    IN  [start(S1, S1.chans[c].name, offset) EXCEPT !.returned = "unsubscribe"]

\* Channel.publish without the test of the connection (mutant).
publishUnchecked(S, c, p) ==
    [send(S, PublishFrame(S.chans[c].name, p)) EXCEPT !.returned = "resolved"]

\* Channel.publish: what happens to the session and how the promise ends.
publish(S, c, p) ==
    IF ~isConnected(S)
    THEN [S EXCEPT !.returned = "NotConnected"]
    ELSE [send(S, PublishFrame(S.chans[c].name, p)) EXCEPT !.returned = "resolved"]

\* Channel.close that sends nothing (mutant).
closeSilent(S, c) == S

\* Channel.close
close(S, c) == send(S, UnsubscribeFrame(S.chans[c].name))

\* Channel.unstream that closes the channel whatever streams remain (mutant).
unstreamClosing(S, c, cb) ==
    close([S EXCEPT !.chans[c].streams = mapDelete(@, cb),
                    !.returned = "undefined"], c)

\* Channel.unstream
unstream(S, c, cb) ==
    LET S1 == [S EXCEPT !.chans[c].streams = mapDelete(@, cb),
                        !.returned = "undefined"]
    IN  IF Len(S1.chans[c].streams) = 0 THEN close(S1, c) ELSE S1

\* handleDisconnection without the test of the close code (mutant).
handleDisconnectionAnyCode(S, code) ==
    LET S1 == clearAuthTimeout([S EXCEPT !.isAuthenticated = FALSE,
                                         !.authPromise = 0])
    IN  IF ~S1.shouldReconnect
        THEN setState(S1, DISCONNECTED)
        ELSE IF isMaxAttemptsReached(S1)
             THEN setState(S1, FAILED)
             ELSE scheduleReconnection(setState(S1, RECONNECTING))

\* Connection.handleDisconnection
handleDisconnection(S, code) ==
    LET S1 == clearAuthTimeout([S EXCEPT !.isAuthenticated = FALSE,
                                         !.authPromise = 0])
    IN  IF ~S1.shouldReconnect \/ code = NORMAL
        THEN setState(S1, DISCONNECTED)
        ELSE IF isMaxAttemptsReached(S1)
             THEN setState(S1, FAILED)
             ELSE scheduleReconnection(setState(S1, RECONNECTING))

\* attemptConnection: ws.onopen of attempt i
onopen(S, i) ==
    startAuthentication(
        reset(setState([S EXCEPT !.sockets[i].connectionTimeout = FALSE],
                       AUTHENTICATING)), i)

\* attemptConnection: ws.onclose of attempt i
onclose(S, i, code) ==
    LET S1 == handleDisconnection(
                  stopHeartbeat([S EXCEPT !.sockets[i].connectionTimeout = FALSE]),
                  code)
    IN  IF S1.state = CONNECTING
        THEN settle(S1, i, "rejected")
        ELSE S1

\* attemptConnection: ws.onerror of attempt i
onerror(S, i) ==
    LET S1 == [S EXCEPT !.sockets[i].connectionTimeout = FALSE]
    IN  IF S1.state = CONNECTING
        THEN settle(S1, i, "rejected")
        ELSE S1

\* Connection.attemptConnection: a new socket, its handlers, its connection
\* timeout and its promise, awaited by connect() or by the reconnection timer.
attemptConnection(S, awaiter) ==
    LET S1 == setState(S, CONNECTING)
        sock == [readyState |-> "CONNECTING", attached |-> TRUE,
                 wasOpen |-> FALSE,
                 connectionTimeout |-> TRUE, promise |-> "pending",
                 awaiter |-> awaiter, authPending |-> FALSE,
                 authTimer |-> FALSE]
    IN  [S1 EXCEPT !.sockets = Append(@, sock), !.ws = Len(S1.sockets) + 1]

\* connect() without the test of connectionPromise (mutant).
connectAlways(S) ==
    LET pendingNow == {c \in DOMAIN S.calls : S.calls[c].outcome = "pending"}
        S1 == attemptConnection([S EXCEPT !.shouldReconnect = TRUE], "connect")
    IN  [S1 EXCEPT !.connectionPromise = S1.ws,
                   !.calls = Append(@, [promise |-> S1.ws,
                                        outcome |-> "pending",
                                        during |-> pendingNow,
                                        opened |-> TRUE])]

\* Connection.connect
connect(S) ==
    LET pendingNow == {c \in DOMAIN S.calls : S.calls[c].outcome = "pending"}
    IN  IF S.connectionPromise # 0
        THEN [S EXCEPT !.calls = Append(@, [promise |-> S.connectionPromise,
                                            outcome |-> "pending",
                                            during |-> pendingNow,
                                            opened |-> FALSE])]
        ELSE LET S1 == attemptConnection([S EXCEPT !.shouldReconnect = TRUE],
                                         "connect")
             IN  [S1 EXCEPT !.connectionPromise = S1.ws,
                            !.calls = Append(@, [promise |-> S1.ws,
                                                 outcome |-> "pending",
                                                 during |-> pendingNow,
                                                 opened |-> TRUE])]

\* Connection.disconnect
disconnect(S) ==
    LET S1 == [S EXCEPT !.shouldReconnect = FALSE]
        S2 == IF S1.reconnectTimeoutId # "null"
              THEN [S1 EXCEPT
                      !.reconnectTimers =
                          IF S1.reconnectTimeoutId = "pending" THEN @ - 1 ELSE @,
                      !.reconnectTimeoutId = "null"]
              ELSE S1
        S3 == clearAuthTimeout(S2)
        S4 == stopHeartbeat([S3 EXCEPT !.isAuthenticated = FALSE,
                                       !.authPromise = 0])
        S5 == IF S4.ws # 0
              THEN [wsClose([S4 EXCEPT !.sockets[S4.ws].attached = FALSE],
                            S4.ws)
                    EXCEPT !.ws = 0]
              ELSE S4
    IN  setState(S5, DISCONNECTED)

\* ----------------------------------------------------------------- actions
\* A socket whose handlers disconnect() detached delivers its events to nobody,
\* and nothing reads its readyState again: only attached sockets have events.

\* A caller invokes connect(), in a run of at most maxCalls calls and
\* maxSockets attempts.
ConnectWithin(maxCalls, maxSockets) ==
    /\ Len(calls) < maxCalls
    /\ connectionPromise # 0 \/ Len(sockets) < maxSockets
    /\ Commit(connect(Cur))

Connect == ConnectWithin(MaxCalls, MaxSockets)

\* A caller invokes disconnect().
Disconnect == Commit(disconnect(Cur))

\* The socket of attempt i opens.
SocketOpen(i) ==
    /\ sockets[i].attached
    /\ sockets[i].readyState = "CONNECTING"
    /\ Commit(onopen([Cur EXCEPT !.sockets[i].readyState = "OPEN",
                                 !.sockets[i].wasOpen = TRUE], i))

\* The socket of attempt i fails before it opened (refused, or closed while
\* connecting): an error event, then a close event with an abnormal code.
SocketFail(i) ==
    /\ sockets[i].attached
    /\ ~sockets[i].wasOpen
    /\ sockets[i].readyState \in {"CONNECTING", "CLOSING"}
    /\ Commit(onclose(onerror([Cur EXCEPT !.sockets[i].readyState = "CLOSED"], i),
                      i, ABNORMAL))

\* The socket of attempt i closes after it opened, with close code `code`,
\* after an error event (err) or without one.
SocketClose(i, code, err) ==
    /\ sockets[i].attached
    /\ sockets[i].wasOpen
    /\ sockets[i].readyState \in {"OPEN", "CLOSING"}
    /\ err => code = ABNORMAL
    /\ LET S1 == [Cur EXCEPT !.sockets[i].readyState = "CLOSED"]
       IN  Commit(onclose(IF err THEN onerror(S1, i) ELSE S1, i, code))

\* The socket of attempt i delivers an inbound frame.
SocketMessageWith(i, type, throws) ==
    /\ sockets[i].readyState = "OPEN"
    /\ sockets[i].attached
    /\ Commit(handleMessage(CurThrows(throws), Inbound(type, "", 0)))

SocketMessage(i, type) == SocketMessageWith(i, type, {})

\* The connection timeout of attempt i fires (attemptConnection, setTimeout).
ConnectionTimeout(i) ==
    /\ sockets[i].connectionTimeout
    /\ LET S1 == [Cur EXCEPT !.sockets[i].connectionTimeout = FALSE]
       IN  Commit(IF S1.ws # 0 /\ S1.sockets[S1.ws].readyState = "CONNECTING"
                  THEN settle(wsClose(S1, S1.ws), i, "rejected")
                  ELSE S1)

\* The handshake timeout of attempt i fires (startAuthentication, setTimeout).
AuthTimeout(i) ==
    /\ sockets[i].authTimer
    /\ Commit(settleAuth([Cur EXCEPT !.sockets[i].authTimer = FALSE,
                                     !.authPromise = 0],
                         i, FALSE))

\* The reconnection timer fires (scheduleReconnection, setTimeout callback).
ReconnectTimerWithin(maxSockets) ==
    /\ reconnectTimers > 0
    /\ LET S1 == [Cur EXCEPT !.reconnectTimers = @ - 1,
                             !.reconnectTimeoutId = "dead"]
       IN  IF shouldReconnect /\ state = RECONNECTING
           THEN /\ Len(sockets) < maxSockets
                /\ Commit(attemptConnection(S1, "reconnect"))
           ELSE Commit(S1)

ReconnectTimer == ReconnectTimerWithin(MaxSockets)

\* The heartbeat interval fires (startHeartbeat, setInterval callback); stale
\* says whether more than twice the interval has passed since the last pong.
HeartbeatWith(stale, throws) ==
    /\ heartbeatTimers > 0
    /\ Commit(IF isConnected(Cur)
              THEN IF stale
                   THEN wsClose(Cur, ws)
                   ELSE send(CurThrows(throws), HeartbeatFrame)
              ELSE Cur)

Heartbeat(stale) == HeartbeatWith(stale, {})

Next ==
    \/ Connect
    \/ Disconnect
    \/ \E i \in DOMAIN sockets : SocketOpen(i)
    \/ \E i \in DOMAIN sockets : SocketFail(i)
    \/ \E i \in DOMAIN sockets, code \in CloseCodes, err \in BOOLEAN :
          SocketClose(i, code, err)
    \/ \E i \in DOMAIN sockets, type \in AuthFrames : SocketMessage(i, type)
    \/ \E i \in DOMAIN sockets : ConnectionTimeout(i)
    \/ \E i \in DOMAIN sockets : AuthTimeout(i)
    \/ ReconnectTimer
    \/ \E stale \in BOOLEAN : Heartbeat(stale)

Spec == Init /\ [][Next]_vars

\* -------------------------------------------------- the Package layer
\* Package.disconnect: close() of every registered channel in the order of
\* the channels map (the order of creation), then the registry is emptied and
\* the connection disconnected.
RECURSIVE closeFrom(_, _)
closeFrom(S, c) ==
    IF c > Len(S.chans) THEN S
    ELSE closeFrom(IF S.channels[S.chans[c].name] = c THEN close(S, c) ELSE S,
                   c + 1)

packageDisconnect(S) ==
    disconnect([closeFrom(S, 1) EXCEPT !.channels = [t \in Topics |-> 0]])

\* A caller invokes Package.connect().
PackageConnect == ConnectWithin(PkgCalls, PkgSockets)

\* A caller invokes Package.disconnect().
PackageDisconnect == Commit(packageDisconnect(Cur))

\* A caller invokes realtime.channel(t), in a run that constructs at most
\* maxChannels Channel objects.
CreateChannelWithin(t, maxChannels) ==
    /\ channels[t] # 0 \/ Len(chans) < maxChannels
    /\ Commit(createChannel(Cur, t))

CreateChannel(t) == CreateChannelWithin(t, MaxChannels)

\* A caller invokes publish(message) on a Channel object it holds.
Publish(c, p) == Commit(publish(Cur, c, p))

\* A caller invokes stream(cb) on a Channel object it holds.
Stream(c, cb) == Commit(stream(Cur, c, cb))

\* A caller invokes unstream(cb) on a Channel object it holds.
Unstream(c, cb) == Commit(unstream(Cur, c, cb))

\* The socket of attempt i delivers a 'message' frame.
SocketDataWith(i, channel, offset, throwing, setItemThrows) ==
    /\ sockets[i].readyState = "OPEN"
    /\ sockets[i].attached
    /\ Commit(handleMessage(CurThrowing(throwing, setItemThrows),
                            Inbound("message", channel, offset)))

SocketData(i, channel, offset) == SocketDataWith(i, channel, offset, {}, FALSE)

NextPkg ==
    \/ PackageConnect
    \/ PackageDisconnect
    \/ \E t \in PkgTopics : CreateChannel(t)
    \/ \E c \in DOMAIN chans, cb \in Callbacks : Stream(c, cb)
    \/ \E c \in DOMAIN chans, cb \in Callbacks : Unstream(c, cb)
    \/ \E i \in DOMAIN sockets : SocketOpen(i)
    \/ \E i \in DOMAIN sockets : SocketFail(i)
    \/ \E i \in DOMAIN sockets, code \in CloseCodes, err \in BOOLEAN :
          SocketClose(i, code, err)
    \/ \E i \in DOMAIN sockets, type \in AuthFrames : SocketMessage(i, type)
    \/ \E i \in DOMAIN sockets, t \in PkgTopics \cup {""}, offset \in 0..MaxOffset :
          SocketData(i, t, offset)
    \/ \E i \in DOMAIN sockets : ConnectionTimeout(i)
    \/ \E i \in DOMAIN sockets : AuthTimeout(i)
    \/ ReconnectTimerWithin(PkgSockets)
    \/ \E stale \in BOOLEAN : Heartbeat(stale)

SpecPkg == InitPkg /\ [][NextPkg]_vars

\* -------------------------------------------------- the Channel layer
\* Channels of every topic, their streams and their inbound and outbound
\* frames, on a session that the caller connects and disconnects. Without
\* Package.disconnect() no topic gets a second Channel object. The attempts
\* of a run are those of connect(): the reconnection timer stays pending.
ChanNext(topics) ==
    \/ ConnectWithin(ChanCalls, ChanSockets)
    \/ Disconnect
    \/ \E t \in topics : CreateChannelWithin(t, Cardinality(topics))
    \/ \E c \in DOMAIN chans, cb \in Callbacks : Stream(c, cb)
    \/ \E c \in DOMAIN chans, cb \in Callbacks : Unstream(c, cb)
    \/ \E c \in DOMAIN chans : Publish(c, 1)
    \/ \E i \in DOMAIN sockets : SocketOpen(i)
    \/ \E i \in DOMAIN sockets : SocketFail(i)
    \/ \E i \in DOMAIN sockets, code \in CloseCodes, err \in BOOLEAN :
          SocketClose(i, code, err)
    \/ \E i \in DOMAIN sockets, type \in AuthFrames : SocketMessage(i, type)
    \/ \E i \in DOMAIN sockets, t \in topics \cup {""}, offset \in 0..MaxOffset :
          SocketData(i, t, offset)
    \/ \E i \in DOMAIN sockets : ConnectionTimeout(i)
    \/ \E i \in DOMAIN sockets : AuthTimeout(i)
    \/ \E stale \in BOOLEAN : Heartbeat(stale)

NextChan == ChanNext(Topics)

SpecChan == Init /\ [][NextChan]_vars

\* The same for the channel of one topic.
NextTopic == ChanNext(PkgTopics)

SpecTopic == Init /\ [][NextTopic]_vars

\* ------------------------------------------------------- the outbox
\* Connection.send on a session that the caller connects and disconnects. The
\* attempts of a run are those of connect(): the reconnection timer stays
\* pending.
\* A caller invokes Connection.send(message).
Send(p, throws) == Commit(send(CurThrows(throws), Message(p)))

NextSend ==
    \/ ConnectWithin(SendCalls, SendSockets)
    \/ Disconnect
    \/ \E p \in Payloads, throws \in ThrowsOf(1) : Send(p, throws)
    \/ \E i \in DOMAIN sockets : SocketOpen(i)
    \/ \E i \in DOMAIN sockets : SocketFail(i)
    \/ \E i \in DOMAIN sockets, code \in CloseCodes, err \in BOOLEAN :
          SocketClose(i, code, err)
    \/ \E i \in DOMAIN sockets, type \in AuthFrames,
          throws \in ThrowsOf(IF messageQueue = <<>> THEN 1 ELSE Len(messageQueue)) :
          SocketMessageWith(i, type, throws)
    \/ \E i \in DOMAIN sockets : ConnectionTimeout(i)
    \/ \E i \in DOMAIN sockets : AuthTimeout(i)
    \/ \E stale \in BOOLEAN, throws \in ThrowsOf(1) : HeartbeatWith(stale, throws)

SpecSend == Init /\ [][NextSend]_vars

\* ------------------------------------------------------ handlers that throw
\* The channels of every topic, in either environment, with stream callbacks
\* and a storage that may throw; the caller adds its streams on a session
\* that is connected.
NextDeliver ==
    \/ ConnectWithin(ChanCalls, ChanSockets)
    \/ \E t \in Topics : CreateChannelWithin(t, Cardinality(Topics))
    \/ \E c \in DOMAIN chans, cb \in Callbacks : isConnected(Cur) /\ Stream(c, cb)
    \/ \E i \in DOMAIN sockets : SocketOpen(i)
    \/ \E i \in DOMAIN sockets : SocketMessage(i, "connected")
    \/ \E i \in DOMAIN sockets, t \in Topics \cup {""}, offset \in 0..DeliverOffset,
          throwing \in SUBSET Callbacks, setItemThrows \in BOOLEAN :
          SocketDataWith(i, t, offset, throwing, setItemThrows)

SpecDeliver == InitPkg /\ [][NextDeliver]_vars

\* The same with as many connect() calls and attempts as Spec has, and with
\* the reconnection timer.
NextDrain ==
    \/ Connect
    \/ Disconnect
    \/ \E p \in Payloads, throws \in ThrowsOf(1) : Send(p, throws)
    \/ \E i \in DOMAIN sockets : SocketOpen(i)
    \/ \E i \in DOMAIN sockets : SocketFail(i)
    \/ \E i \in DOMAIN sockets, code \in CloseCodes, err \in BOOLEAN :
          SocketClose(i, code, err)
    \/ \E i \in DOMAIN sockets, type \in AuthFrames,
          throws \in ThrowsOf(IF messageQueue = <<>> THEN 1 ELSE Len(messageQueue)) :
          SocketMessageWith(i, type, throws)
    \/ \E i \in DOMAIN sockets : ConnectionTimeout(i)
    \/ \E i \in DOMAIN sockets : AuthTimeout(i)
    \/ ReconnectTimer
    \/ \E stale \in BOOLEAN, throws \in ThrowsOf(1) : HeartbeatWith(stale, throws)

SpecDrain == Init /\ [][NextDrain]_vars

\* ------------------------------------------------ the channel registry
\* The Package of one topic whose caller asks for the channel again after
\* Package.disconnect() and connects again; the server sends frames of the
\* topic.
NextRegistry ==
    \/ ConnectWithin(MaxCalls, PkgSockets)
    \/ PackageDisconnect
    \/ \E t \in PkgTopics : CreateChannelWithin(t, MaxObjects)
    \/ \E i \in DOMAIN sockets : SocketOpen(i)
    \/ \E i \in DOMAIN sockets : SocketMessage(i, "connected")
    \/ \E i \in DOMAIN sockets, t \in PkgTopics, offset \in 0..DeliverOffset :
          SocketData(i, t, offset)

SpecRegistry == Init /\ [][NextRegistry]_vars

\* ------------------------------------------------ retries
\* The session of one connect() call against a server that never completes
\* the handshake: no `connected` frame arrives, so no attempt reaches
\* Connected, and the caller never disconnects.
NextRetry ==
    \/ ConnectWithin(ChanCalls, RetrySockets)
    \/ \E i \in DOMAIN sockets : SocketOpen(i)
    \/ \E i \in DOMAIN sockets : SocketFail(i)
    \/ \E i \in DOMAIN sockets, code \in CloseCodes, err \in BOOLEAN :
          SocketClose(i, code, err)
    \/ \E i \in DOMAIN sockets, type \in AuthFrames \ {"connected"} :
          SocketMessage(i, type)
    \/ \E i \in DOMAIN sockets : ConnectionTimeout(i)
    \/ \E i \in DOMAIN sockets : AuthTimeout(i)
    \/ ReconnectTimerWithin(RetrySockets)

SpecRetry == Init /\ [][NextRetry]_vars

\* The same session with a larger backoff.maxAttempts.
InitCounting ==
    /\ Constructed
    /\ hasStorage = FALSE
    /\ backoff = NoBackoff
    /\ maxAttempts = ManyAttempts

SpecCounting == InitCounting /\ [][NextRetry]_vars

\* ------------------------------------------------ connectivity events
\* Package.onConnectivityChange(callback): the callback is added as a
\* listener (one callback is followed).
OnConnectivityChange ==
    /\ ~subscribed
    /\ Commit([Cur EXCEPT !.subscribed = TRUE])

\* The function that onConnectivityChange returned removes the listener.
RemoveConnectivityListener ==
    /\ subscribed
    /\ Commit([Cur EXCEPT !.subscribed = FALSE])

\* The session with a caller that subscribes to its connectivity events.
NextConnectivity ==
    \/ ConnectWithin(PkgCalls, PkgSockets)
    \/ Disconnect
    \/ OnConnectivityChange
    \/ RemoveConnectivityListener
    \/ \E i \in DOMAIN sockets : SocketOpen(i)
    \/ \E i \in DOMAIN sockets : SocketFail(i)
    \/ \E i \in DOMAIN sockets, code \in CloseCodes, err \in BOOLEAN :
          SocketClose(i, code, err)
    \/ \E i \in DOMAIN sockets, type \in AuthFrames : SocketMessage(i, type)
    \/ \E i \in DOMAIN sockets : ConnectionTimeout(i)
    \/ \E i \in DOMAIN sockets : AuthTimeout(i)
    \/ ReconnectTimerWithin(PkgSockets)
    \/ \E stale \in BOOLEAN : Heartbeat(stale)

SpecConnectivity == Init /\ [][NextConnectivity]_vars

\* ------------------------------------------------ the backoff policy alone
\* A policy constructed with any of the options, on which a caller calls
\* getDelay() and reset() in any order.
InitBackoff ==
    /\ Constructed
    /\ hasStorage = FALSE
    /\ backoff \in {construct(o) : o \in Options}
    /\ maxAttempts = MaxAttempts

Session ==
    <<state, ws, shouldReconnect, connectionPromise, reconnectTimeoutId,
      reconnectTimers, authTimeoutId, authPromise, heartbeatInterval,
      heartbeatTimers, maxAttempts,
      isAuthenticated, attempts, sockets, calls, messageQueue, channels, chans,
      hasStorage, localStorage, handed, wire, delivered, returned,
      lastPongTime, forwarded, subscribed, events>>

GetDelay(random) ==
    /\ backoff' = getDelay(backoff, random)
    /\ UNCHANGED Session

Reset ==
    /\ backoff' = backoffReset(backoff)
    /\ UNCHANGED Session

\* isMaxAttemptsReached() is called; `reached` keeps what it returned.
IsMaxAttemptsReached ==
    /\ backoff' = [backoff EXCEPT !.called = "isMaxAttemptsReached",
                                  !.thrown = FALSE, !.delay = 0,
                                  !.reached =
                                      backoffIsMaxAttemptsReached(backoff)]
    /\ UNCHANGED Session

PeekNextDelay(random) ==
    /\ backoff' = peekNextDelay(backoff, random)
    /\ UNCHANGED Session

NextBackoff ==
    \/ \E random \in Randoms : GetDelay(random)
    \/ Reset
    \/ IsMaxAttemptsReached
    \/ \E random \in Randoms : PeekNextDelay(random)

SpecBackoff == InitBackoff /\ [][NextBackoff]_vars

\* ------------------------------------------------------------------ claims

\* The close handler of attempt i starts from this session: the socket is
\* closed and, when an error event came first, onerror has run.
BeforeClose(i, err) ==
    LET S1 == [Cur EXCEPT !.sockets[i].readyState = "CLOSED"]
    IN  IF err THEN onerror(S1, i) ELSE S1

\* A step that is the close event of socket i with close code `code`.
CloseEvent(i, code, err) ==
    \/ SocketClose(i, code, err)
    \/ SocketFail(i) /\ code = ABNORMAL /\ err

Timers(S) ==
    {<<"connection", i>> : i \in {j \in DOMAIN S.sockets : S.sockets[j].connectionTimeout}}
    \cup {<<"handshake", i>> : i \in {j \in DOMAIN S.sockets : S.sockets[j].authTimer}}
    \cup (IF S.reconnectTimers > 0 THEN {<<"reconnection", 0>>} ELSE {})
    \cup (IF S.heartbeatInterval THEN {<<"heartbeat", 0>>} ELSE {})

\* C1: a connect() call made while an earlier call is still pending opens no
\* socket and has, at every moment, the promise and the outcome of that call.
C1_ConcurrentConnectShared ==
    \A c2 \in DOMAIN calls : \A c1 \in calls[c2].during :
        /\ ~calls[c2].opened
        /\ calls[c2].promise = calls[c1].promise
        /\ calls[c2].outcome = calls[c1].outcome

C1_Witness ==
    \E c2 \in DOMAIN calls :
        calls[c2].during # {} /\ calls[c2].outcome = "true" /\ Len(sockets) = 1

\* C2: after disconnect(), until connect() is called, no socket event and no
\* timer moves the session out of Disconnected or starts a connection attempt.
C2_DisconnectIsFinal ==
    [][(state = DISCONNECTED /\ ~shouldReconnect /\ ~Connect)
         => (state' = DISCONNECTED /\ Len(sockets') = Len(sockets))]_vars

\* C3: in the task in which the session reaches Connected again after an
\* earlier attempt had connected, every Channel with at least one Stream hands
\* the session a subscribe frame for its topic with fromOffset equal to the
\* channel's offset.
C3_ResubscribeOnReconnect ==
    [][(/\ state # CONNECTED
        /\ state' = CONNECTED
        /\ \E j \in DOMAIN sockets : sockets[j].promise = "true")
         => \A c \in DOMAIN chans' :
               Len(chans'[c].streams) > 0
               => \E k \in DOMAIN handed' :
                     handed'[k] = SubscribeFrame(chans'[c].name, chans'[c].offset)]_vars

\* C4: when disconnect() returns, no timer of the session is pending.
C4_DisconnectClearsTimers == [][Disconnect => Timers(Cur') = {}]_vars

\* C5: a pending connect() call is rejected when its attempt fails: when the
\* socket of its attempt closes, the call is settled by that event.
C5_CloseSettlesConnect ==
    [][\A c \in DOMAIN calls :
          (/\ calls[c].outcome = "pending"
           /\ \E code \in CloseCodes, err \in BOOLEAN :
                  CloseEvent(calls[c].promise, code, err))
          => calls'[c].outcome = "rejected"]_vars

\* C6: connect() called in Disconnected or Failed opens a socket and moves the
\* session to Connecting.
C6_ConnectStartsAttempt ==
    [][(Connect /\ state \in {DISCONNECTED, FAILED})
         => (state' = CONNECTING /\ Len(sockets') = Len(sockets) + 1)]_vars

\* C7: isAuthenticated implies state = Connected.
C7_AuthenticatedImpliesConnected == isAuthenticated => state = CONNECTED

\* C8: once a failed handshake has left the session in Unauthorized, the close
\* event of the socket does not move it to another state.
C8_UnauthorizedSurvivesClose ==
    [][\A i \in DOMAIN sockets, code \in CloseCodes, err \in BOOLEAN :
          (state = UNAUTHORIZED /\ CloseEvent(i, code, err))
          => state' = UNAUTHORIZED]_vars

\* What handleDisconnection is to make of a close with `code` that finds the
\* session as M and leaves it as F.
CloseOutcome(M, code, F) ==
    IF ~M.shouldReconnect \/ code = NORMAL
    THEN /\ F.state = DISCONNECTED
         /\ F.attempts = M.attempts
         /\ F.reconnectTimeoutId = M.reconnectTimeoutId
         /\ F.reconnectTimers = M.reconnectTimers
    ELSE IF M.attempts < MaxAttempts
         THEN /\ F.state = RECONNECTING
              /\ F.attempts = M.attempts + 1
              /\ F.reconnectTimeoutId = "pending"
              /\ F.reconnectTimers = 1
         ELSE /\ F.state = FAILED
              /\ F.attempts = M.attempts
              /\ F.reconnectTimeoutId = M.reconnectTimeoutId
              /\ F.reconnectTimers = M.reconnectTimers

\* C9: a close event requested by disconnect() or carrying the normal code
\* ends in Disconnected and schedules nothing; any other one ends in
\* Reconnecting with one reconnection scheduled through the backoff while
\* attempts remain, and in Failed with nothing scheduled once they are exhausted.
C9_CloseHandling ==
    [][\A i \in DOMAIN sockets, code \in CloseCodes, err \in BOOLEAN :
          CloseEvent(i, code, err) => CloseOutcome(BeforeClose(i, err), code, Cur')]_vars

C9_Witness ==
    /\ state = FAILED
    /\ attempts = MaxAttempts
    /\ shouldReconnect
    /\ \A i \in DOMAIN sockets : sockets[i].attached /\ sockets[i].readyState = "CLOSED"

\* C10: once Failed, the session stays Failed and opens no socket until
\* connect() (or disconnect()) is called.
C10_FailedIsTerminal ==
    [][(state = FAILED /\ ~Connect /\ ~Disconnect)
         => (state' = FAILED /\ Len(sockets') = Len(sockets))]_vars

\* C11: send(message) writes the message to the socket exactly when the
\* session is Connected and authenticated, its socket is open and the write
\* does not fail; in every other case the message goes to the tail of the
\* outbox and nothing is written.
C11_SendOrQueue ==
    [][\A p \in Payloads, throws \in Throws :
          Send(p, throws)
          => IF /\ state = CONNECTED
                /\ isAuthenticated
                /\ ws # 0
                /\ sockets[ws].readyState = "OPEN"
                /\ 1 \notin throws
             THEN wire' = <<Message(p)>> /\ messageQueue' = messageQueue
             ELSE /\ wire' = <<>>
                  /\ messageQueue' # <<>>
                  /\ messageQueue'[Len(messageQueue')] = Message(p)
                  /\ Len(messageQueue') = IF Len(messageQueue) < MaxQueueSize
                                          THEN Len(messageQueue) + 1
                                          ELSE MaxQueueSize]_vars

\* A send whose write failed on a connected session: the message is queued.
C11_Witness ==
    /\ state = CONNECTED /\ isAuthenticated
    /\ ws # 0 /\ sockets[ws].readyState = "OPEN"
    /\ handed = <<Message(1)>>
    /\ wire = <<>>
    /\ messageQueue = <<Message(1)>>

\* C12: the outbox never holds more than its capacity, and a message that
\* send() queues into a full outbox evicts the oldest entry and goes to the
\* tail, the entries in between keeping their order.
C12_OutboxBounded ==
    [][/\ Len(messageQueue) <= MaxQueueSize
       /\ Len(messageQueue') <= MaxQueueSize
       /\ \A p \in Payloads, throws \in Throws :
             (Send(p, throws) /\ wire' = <<>>)
             => messageQueue' =
                  Append(IF Len(messageQueue) = MaxQueueSize
                         THEN Tail(messageQueue)
                         ELSE messageQueue,
                         Message(p))]_vars

\* A message sent into a full outbox: the outbox is full, the message is last.
C12_Witness ==
    /\ Len(messageQueue) = MaxQueueSize
    /\ MaxQueueSize > 1
    /\ handed = <<Message(3)>>
    /\ wire = <<>>
    /\ messageQueue[1] = Message(2)
    /\ messageQueue[Len(messageQueue)] = Message(3)

\* The entries of q whose place in q is (member = TRUE) or is not in `places`.
RECURSIVE Pick(_, _, _, _)
Pick(q, places, member, k) ==
    IF k > Len(q) THEN <<>>
    ELSE (IF (k \in places) = member THEN <<q[k]>> ELSE <<>>)
         \o Pick(q, places, member, k + 1)

\* C13: in the task in which the session reaches Connected with a non-empty
\* outbox, every queued message is handed to the socket once, oldest first;
\* the outbox is left holding exactly the messages whose write failed.
C13_DrainOnConnected ==
    [][\A i \in DOMAIN sockets, type \in AuthFrames, throws \in Throws :
          (/\ SocketMessageWith(i, type, throws)
           /\ state # CONNECTED
           /\ state' = CONNECTED
           /\ messageQueue # <<>>)
          => /\ handed' = messageQueue
             /\ wire' = Pick(messageQueue, throws, FALSE, 1)
             /\ messageQueue' = Pick(messageQueue, throws, TRUE, 1)]_vars

\* C14: publish(message) on a channel of a session that is not connected
\* fails with NotConnected and neither writes nor queues anything; on a
\* connected session it hands the session one publish frame for the channel's
\* topic and resolves.
C14_PublishNeedsConnection ==
    [][\A c \in DOMAIN chans :
          Publish(c, 1)
          => IF /\ state = CONNECTED
                /\ isAuthenticated
                /\ ws # 0
                /\ sockets[ws].readyState = "OPEN"
             THEN /\ returned' = "resolved"
                  /\ handed' = <<PublishFrame(chans[c].name, 1)>>
             ELSE /\ returned' = "NotConnected"
                  /\ handed' = <<>>
                  /\ wire' = <<>>
                  /\ messageQueue' = messageQueue]_vars

\* A publish that failed on a session whose outbox holds a frame.
C14_Witness ==
    /\ returned = "NotConnected"
    /\ state # CONNECTED
    /\ messageQueue # <<>>
    /\ handed = <<>>

\* C15: the offset of a channel never decreases; an inbound message frame
\* that the channel hands to its streams sets the offset to its own when that
\* is greater, and any other inbound frame leaves the offset as it is.
C15_OffsetMonotonic ==
    [][\A c \in DOMAIN chans :
          /\ chans'[c].offset >= chans[c].offset
          /\ \A i \in DOMAIN sockets, t \in Topics \cup {""}, o \in 0..MaxOffset :
                SocketData(i, t, o)
                => chans'[c].offset =
                     IF o > chans[c].offset
                        /\ \E k \in DOMAIN delivered' : delivered'[k].chan = c
                     THEN o
                     ELSE chans[c].offset]_vars

\* A message with an offset below the channel's was delivered, and the
\* channel kept its offset.
C15_Witness ==
    \E c \in DOMAIN chans :
        /\ delivered # <<>>
        /\ delivered[1].chan = c
        /\ delivered[1].offset > 0
        /\ delivered[1].offset < chans[c].offset

\* The number of entries of the streams map whose handler is cb.
StreamsOf(streams, cb) == Cardinality({k \in DOMAIN streams : streams[k] = cb})

\* C16: stream(cb) on a channel that already has a Stream of cb adds a second
\* Stream of cb to the channel.
C16_StreamAgainAddsStream ==
    [][\A c \in DOMAIN chans, cb \in Callbacks :
          (Stream(c, cb) /\ StreamsOf(chans[c].streams, cb) = 1)
          => StreamsOf(chans'[c].streams, cb) = 2]_vars

\* The handlers that the task invoked for channel c, in the order of the calls.
DeliveredTo(D, c) ==
    LET mine == SelectSeq(D, LAMBDA d : d.chan = c)
    IN  [k \in DOMAIN mine |-> mine[k].callback]

\* C17: a message frame that reaches an authenticated session is delivered
\* once to every stream of every channel that has a stream, when the frame
\* names no topic or the topic of the channel, and to none of its streams when
\* it names another topic.
C17_RoutingPerChannel ==
    [][\A i \in DOMAIN sockets, t \in Topics \cup {""}, o \in 0..MaxOffset :
          (SocketData(i, t, o) /\ isAuthenticated)
          => \A c \in DOMAIN chans :
                DeliveredTo(delivered', c) =
                    IF t \in {"", chans[c].name} THEN chans[c].streams ELSE <<>>]_vars

\* C18: removing the last stream of a channel hands an unsubscribe frame for
\* its topic to the session and keeps the Channel object; asking for the topic
\* again returns the object that exists; a stream added to the channel without
\* streams hands a subscribe frame for the topic, from the offset of the
\* channel, and a message frame for the topic is then delivered to its callback.
C18_DormantChannelKept ==
    [][
        /\ \A c \in DOMAIN chans, cb \in Callbacks :
            (Unstream(c, cb) /\ chans[c].streams = <<cb>>)
            => /\ handed' = <<UnsubscribeFrame(chans[c].name)>>
               /\ channels' = channels
               /\ chans' = [chans EXCEPT ![c].streams = <<>>]
        /\ \A t \in Topics :
            (CreateChannel(t) /\ channels[t] # 0)
            => channels' = channels /\ chans' = chans
        /\ \A c \in DOMAIN chans, cb \in Callbacks :
            (Stream(c, cb) /\ chans[c].streams = <<>>)
            => /\ handed' = <<SubscribeFrame(chans[c].name, chans[c].offset)>>
               /\ chans' = [chans EXCEPT ![c].streams = <<cb>>]
        /\ \A c \in DOMAIN chans, i \in DOMAIN sockets, o \in 0..MaxOffset :
            (SocketData(i, chans[c].name, o) /\ isAuthenticated)
            => DeliveredTo(delivered', c) = chans[c].streams]_vars

\* The last stream was removed and another added while the session was down:
\* the unsubscribe frame and the subscribe frame from the offset reached wait
\* in the queue.
C18_Witness ==
    /\ Len(chans) = 1
    /\ chans[1].streams = <<"cb2">>
    /\ chans[1].offset = 1
    /\ returned = "unsubscribe"
    /\ messageQueue = <<UnsubscribeFrame("t1"), SubscribeFrame("t1", 1)>>

\* C19: unstream(cb) removes the stream of cb and no other from the channel,
\* touches no other channel, and hands no frame to the session while a stream
\* remains on the channel.
C19_UnstreamOnlyItsStream ==
    [][\A c \in DOMAIN chans, cb \in Callbacks :
          Unstream(c, cb)
          => /\ \A d \in DOMAIN chans : d # c => chans'[d] = chans[d]
             /\ chans'[c].offset = chans[c].offset
             /\ chans'[c].streams =
                    SelectSeq(chans[c].streams, LAMBDA e : e # cb)
             /\ chans'[c].streams # <<>>
                => handed' = <<>> /\ wire' = <<>>
                   /\ messageQueue' = messageQueue]_vars

\* One of two streams was removed: the other is there and nothing was handed
\* to the session.
C19_Witness ==
    /\ Len(chans) = 1
    /\ chans[1].streams = <<"cb2">>
    /\ returned = "undefined"
    /\ handed = <<>>
    /\ messageQueue = <<SubscribeFrame("t1", 0), SubscribeFrame("t1", 0)>>

\* C20: a message frame that arrives while a channel has no stream leaves the
\* channel as it is, its offset included, and invokes no handler for it; adding
\* a stream invokes no handler either.
C20_DormantDrops ==
    [][
        /\ \A c \in DOMAIN chans, i \in DOMAIN sockets,
             t \in Topics \cup {""}, o \in 0..MaxOffset :
            (SocketData(i, t, o) /\ chans[c].streams = <<>>)
            => chans'[c] = chans[c] /\ DeliveredTo(delivered', c) = <<>>
        /\ \A c \in DOMAIN chans, cb \in Callbacks :
            Stream(c, cb) => delivered' = <<>>]_vars

\* An authenticated session with an open socket and a channel that had a
\* stream, received offset 1 and has no stream now.
C20_Witness ==
    /\ isAuthenticated
    /\ ws # 0
    /\ sockets[ws].readyState = "OPEN"
    /\ Len(chans) = 1
    /\ chans[1].streams = <<>>
    /\ chans[1].offset = 1
    /\ delivered = <<>>

\* C21: a frame that arrives while the session is not authenticated invokes no
\* message handler and no stream handler and leaves every channel as it is; a
\* heartbeat frame that arrives on an authenticated session sets lastPongTime
\* and invokes no handler either.
C21_HandlersNeedAuthentication ==
    [][
        /\ \A i \in DOMAIN sockets, t \in Topics \cup {""}, o \in 0..MaxOffset :
            (~isAuthenticated /\ SocketData(i, t, o))
            => forwarded' = 0 /\ delivered' = <<>> /\ chans' = chans
        /\ \A i \in DOMAIN sockets, type \in AuthFrames :
            (~isAuthenticated /\ SocketMessage(i, type))
            => forwarded' = 0 /\ delivered' = <<>> /\ chans' = chans
        /\ \A i \in DOMAIN sockets :
            (isAuthenticated /\ SocketMessage(i, "heartbeat"))
            => /\ lastPongTime' = "now"
               /\ forwarded' = 0 /\ delivered' = <<>> /\ chans' = chans]_vars

\* A heartbeat frame has just arrived on a connected session whose channel
\* has a stream: no handler ran.
C21_Witness ==
    /\ isAuthenticated
    /\ state = CONNECTED
    /\ lastPongTime = "now"
    /\ heartbeatInterval
    /\ wire = <<>>
    /\ Len(chans) = 1
    /\ chans[1].streams # <<>>
    /\ forwarded = 0

\* The heartbeat check closed the socket of the session: the session is still
\* Connected and authenticated, with reconnection enabled, and its socket is
\* closing.
ForceClosed(i) ==
    /\ state = CONNECTED
    /\ isAuthenticated
    /\ shouldReconnect
    /\ ws = i
    /\ sockets[i].readyState = "CLOSING"

\* C22: on a Connected session with reconnection enabled, a heartbeat check
\* that finds the last liveness signal too old closes the socket and sends no
\* heartbeat frame, and the close event of that socket moves the session to
\* Reconnecting.
C22_HeartbeatTimeoutReconnects ==
    [][
        /\ (Heartbeat(TRUE) /\ isConnected(Cur) /\ shouldReconnect)
            => /\ handed' = <<>> /\ wire' = <<>>
               /\ ForceClosed(ws)'
        /\ \A i \in DOMAIN sockets, code \in CloseCodes, err \in BOOLEAN :
            (ForceClosed(i) /\ SocketClose(i, code, err))
            => state' = RECONNECTING]_vars

\* C23: in a task that passes a frame to the message handlers, whatever the
\* stream callbacks and the storage throw, every message handler of the
\* session is invoked, a channel of which one stream is invoked has all its
\* streams invoked, once each in the order of the map, and the session and the
\* streams of every channel are left as they were.
C23_ThrowingHandlerIsolated ==
    [][forwarded' > 0
       => /\ forwarded' = Len(chans)
          /\ \A c \in DOMAIN chans :
                DeliveredTo(delivered', c) \in {<<>>, chans[c].streams}
          /\ \A c \in DOMAIN chans :
                /\ chans'[c].streams = chans[c].streams
                /\ chans'[c].name = chans[c].name
          /\ Len(chans') = Len(chans)
          /\ channels' = channels
          /\ state' = state /\ isAuthenticated' = isAuthenticated
          /\ ws' = ws /\ sockets' = sockets
          /\ messageQueue' = messageQueue
          /\ handed' = <<>> /\ wire' = <<>>]_vars

\* Two streams of one channel were invoked with a message that set the offset
\* of the channel, and a second channel has a stream.
C23_Witness ==
    /\ Len(chans) = 2
    /\ chans[1].streams = <<"cb1", "cb2">>
    /\ chans[2].streams # <<>>
    /\ hasStorage
    /\ forwarded = 2
    /\ DeliveredTo(delivered, 1) = <<"cb1", "cb2">>
    /\ delivered[1].offset = 1
    /\ chans[1].offset = 1
    /\ localStorage[chans[1].name] = 1

\* C24: the attempts of the backoff go back to 0 only in a task that takes the
\* session to Connected.
C24_ResetOnlyWhenConnected ==
    [][(attempts > 0 /\ attempts' = 0) => state' = CONNECTED]_vars

\* C25: at most one reconnection timer is pending.
C25_OneReconnectionScheduled == reconnectTimers <= 1

\* A reconnection attempt failed: its close event and the rejection of its
\* promise each scheduled a reconnection, and one timer is pending.
C25_Witness ==
    /\ reconnectTimers = 1
    /\ reconnectTimeoutId = "pending"
    /\ attempts = 2
    /\ state = RECONNECTING
    /\ Len(sockets) = 2
    /\ sockets[2].awaiter = "reconnect"
    /\ sockets[2].promise = "rejected"

\* base(n) = min(initialDelay * multiplier^(n-1), maxDelay)
RECURSIVE Power(_, _)
Power(x, k) == IF k = 0 THEN Num(1) ELSE Times(x, Power(x, k - 1))

Base(B, n) ==
    MathMin(Times(B.initialDelay, Power(B.multiplier, n - 1)), B.maxDelay)

LowerBound(B, n) ==
    MathMax(Num(100), Times(Base(B, n), Plus(Num(1), Times(Num(-1), B.jitter))))

UpperBound(B, n) ==
    MathMin(B.maxDelay, Times(Base(B, n), Plus(Num(1), B.jitter)))

\* getDelay() has just returned the n-th delay since the last reset.
Returned(n) ==
    backoff.called = "getDelay" /\ ~backoff.thrown /\ backoff.attempts = n

\* C26 as stated: the n-th delay since the last reset lies within
\* [max(100, base(n)*(1-jitter)), min(maxDelay, base(n)*(1+jitter))].
C26_DelayWithinBounds ==
    \A n \in 1..BackoffAttempts :
        Returned(n)
        => /\ Leq(LowerBound(backoff, n), Num(backoff.delay))
           /\ Leq(Num(backoff.delay), UpperBound(backoff, n))

\* C26 amended: the n-th delay since the last reset is a whole number within
\* [floor(max(100, base(n)*(1-jitter))),
\*  max(100, min(maxDelay, base(n)*(1+jitter)))].
C26_DelayWithinFlooredBounds ==
    \A n \in 1..BackoffAttempts :
        Returned(n)
        => /\ MathFloor(LowerBound(backoff, n)) <= backoff.delay
           /\ Leq(Num(backoff.delay),
                  MathMax(Num(100), UpperBound(backoff, n)))

\* The policy of the session (3000, 1.5, 30000, 0.1) returned its fourth
\* delay with Math.random() = 0: floor(10125 - 1012.5) = 9112.
C26_Witness ==
    /\ Returned(4)
    /\ backoff.initialDelay = Num(3000)
    /\ backoff.jitter = Frac(1, 10)
    /\ backoff.delay = 9112

\* C27: a policy configured with jitter = 0 has no random variation: the
\* n-th delay since the last reset is exactly base(n)
\* (1000, 2, 8000 gives 1000, 2000, 4000, 8000).  Stated for base(n) of at
\* least 100, the least delay getDelay() ever returns.
C27_NoJitterIsDeterministic ==
    \A n \in 1..BackoffAttempts :
        (/\ Returned(n)
         /\ backoff.options.jitter = Num(0)
         /\ Leq(Num(100), Base(backoff, n)))
        => Num(backoff.delay) = Base(backoff, n)

\* C28: getDelay() called with attempts >= maxAttempts throws and leaves
\* attempts and currentDelay as they were; every call that returns raises
\* attempts by one, so exactly maxAttempts calls return between two resets;
\* isMaxAttemptsReached() answers true exactly when attempts >= maxAttempts,
\* that is exactly when the next getDelay() would throw.
C28_MaxAttemptsExceeded ==
    [][/\ (\E random \in Randoms : GetDelay(random))
           => /\ backoff'.thrown <=> (backoff.attempts >= backoff.maxAttempts)
              /\ backoff'.thrown
                 => /\ backoff'.attempts = backoff.attempts
                    /\ backoff'.currentDelay = backoff.currentDelay
              /\ ~backoff'.thrown
                 => backoff'.attempts = backoff.attempts + 1
              /\ backoff'.attempts <= backoff.maxAttempts
       /\ IsMaxAttemptsReached
           => /\ backoff'.reached <=> (backoff.attempts >= backoff.maxAttempts)
              /\ backoff'.reached
                 <=> \A random \in Randoms : getDelay(backoff, random).thrown
              /\ backoff'.attempts = backoff.attempts
              /\ backoff'.currentDelay = backoff.currentDelay]_vars

\* The fifth getDelay() of a policy with maxAttempts = 4 has thrown: four
\* attempts are counted and the next delay is unchanged.
C28_Witness ==
    /\ backoff.called = "getDelay"
    /\ backoff.thrown
    /\ backoff.maxAttempts = 4
    /\ backoff.attempts = 4
    /\ backoff.initialDelay = Num(1000)
    /\ backoff.currentDelay = Num(8000)

\* C29: for a subscriber that is registered throughout a task, the events it
\* observes in the task are the states the session went through in it: each
\* carries the clientId, the first differs from the state before the task,
\* each later one differs from the event before it (a transition to the
\* current state emits nothing), the last one names the state after the task,
\* and a task without events leaves the state as it was.
C29_EventsFollowStates ==
    [][(subscribed /\ subscribed')
       => /\ events' = <<>> => state' = state
          /\ events' # <<>>
             => /\ events'[1].status # state
                /\ events'[Len(events')].status = state'
                /\ \A k \in 1..(Len(events') - 1) :
                      events'[k + 1].status # events'[k].status
                /\ \A k \in 1..Len(events') :
                      events'[k].clientId = ClientId]_vars

\* The subscriber saw the session give up: the close event of the last
\* allowed attempt made it Failed, and the one event of that task says so.
C29_Witness ==
    /\ subscribed
    /\ events = <<Detail(FAILED)>>
    /\ state = FAILED
    /\ attempts = MaxAttempts

\* C30: whatever the caller does, disconnect() followed by connect()
\* included, there is one Channel object per topic name: asking for a topic
\* again returns the object made for it before, so no two of the Channel
\* objects that receive the inbound frames of the session have the same name.
C30_OneChannelPerTopic ==
    \A c1, c2 \in DOMAIN chans :
        chans[c1].name = chans[c2].name => c1 = c2

\* C31: the session enters Connected only from Authenticating and only when
\* a `connected` frame arrives during the handshake, which also sets
\* isAuthenticated and cancels the handshake timer; `auth_success`,
\* `heartbeat` and `auth_required` leave state and isAuthenticated as they
\* were (`auth_required` sends the credentials again); the credentials are
\* sent in the task in which the socket opens.
C31_ConnectedOnlyByHandshake ==
    [][/\ (state' = CONNECTED /\ state # CONNECTED)
           => /\ state = AUTHENTICATING
              /\ \E i \in DOMAIN sockets : SocketMessage(i, "connected")
              /\ isAuthenticated'
              /\ authTimeoutId' = 0
       /\ \A i \in DOMAIN sockets :
             \A type \in {"auth_success", "heartbeat", "auth_required"} :
                SocketMessage(i, type)
                => /\ state' = state
                   /\ isAuthenticated' = isAuthenticated
                   /\ (type = "auth_required" /\ authPromise # 0)
                      => wire' = <<AuthFrame>>
       /\ \A i \in DOMAIN sockets :
             SocketOpen(i) => wire' = <<AuthFrame>>]_vars

\* The attempts that the reconnection timer started.
ReconnectionAttempts(socks) ==
    {i \in DOMAIN socks : socks[i].awaiter = "reconnect"}

\* C32: while no attempt reaches Connected the session makes at most
\* maxAttempts reconnection attempts, and the reconnection timer that fires
\* in Reconnecting moves the session to Connecting.
C32_RetriesBounded ==
    [][/\ Cardinality(ReconnectionAttempts(sockets')) <= MaxAttempts
       /\ (ReconnectTimerWithin(RetrySockets) /\ shouldReconnect
              /\ state = RECONNECTING)
           => state' = CONNECTING]_vars

\* C33: at most one heartbeat timer runs, and only while the session is
\* Connected: every socket close and every disconnect() cancels it, and each
\* time the session reaches Connected one is started and the liveness
\* timestamp renewed.
C33_HeartbeatOnlyWhileConnected ==
    [][/\ heartbeatTimers' <= 1
       /\ heartbeatTimers' > 0 => state' = CONNECTED
       /\ (\/ \E i \in DOMAIN sockets, code \in CloseCodes, err \in BOOLEAN :
                 SocketClose(i, code, err)
           \/ \E i \in DOMAIN sockets : SocketFail(i)
           \/ Disconnect)
          => heartbeatTimers' = 0
       /\ (state' = CONNECTED /\ state # CONNECTED)
          => heartbeatTimers' = 1 /\ lastPongTime' = "now"]_vars

\* C34: stream(cb) hands one subscribe frame for the topic of the channel to
\* the session, from the offset the channel has at the call; the frame is
\* written to the socket or is the newest entry of the outbox; cb has a stream
\* afterwards, and the function that the call returns removes it.
C34_StreamSubscribesFromOffset ==
    [][\A c \in DOMAIN chans, cb \in Callbacks :
          /\ Stream(c, cb)
              => /\ handed' = <<SubscribeFrame(chans[c].name, chans[c].offset)>>
                 /\ \/ wire' = handed' /\ messageQueue' = messageQueue
                    \/ /\ wire' = <<>>
                       /\ messageQueue' # <<>>
                       /\ messageQueue'[Len(messageQueue')] = handed'[1]
                 /\ returned' = "unsubscribe"
                 /\ StreamsOf(chans'[c].streams, cb) = 1
                 /\ chans'[c].offset = chans[c].offset
          /\ Unstream(c, cb)
              => StreamsOf(chans'[c].streams, cb) = 0]_vars

\* A stream added on a connected session to a channel that had received
\* offset 1: the subscribe frame from offset 1 went to the socket.
C34_Witness ==
    /\ isConnected(Cur)
    /\ Len(chans) = 1
    /\ chans[1].offset = 1
    /\ chans[1].streams = <<"cb1", "cb2">>
    /\ returned = "unsubscribe"
    /\ handed = <<SubscribeFrame("t1", 1)>>
    /\ wire = <<SubscribeFrame("t1", 1)>>

\* C35: peekNextDelay() changes neither attempts nor currentDelay, and what
\* it returns lies within the jitter bounds around currentDelay, the base
\* delay of the getDelay() call that follows (floored, and at least 100), and
\* is never above maxDelay.
C35_PeekMatchesNextDelay ==
    [][(\E random \in Randoms : PeekNextDelay(random))
       => /\ backoff'.attempts = backoff.attempts
          /\ backoff'.currentDelay = backoff.currentDelay
          /\ \/ backoff'.delay = 100
             \/ /\ MathFloor(Times(backoff.currentDelay,
                                   Plus(Num(1), Times(Num(-1), backoff.jitter))))
                       <= backoff'.delay
                /\ Leq(Num(backoff'.delay),
                       Times(backoff.currentDelay,
                             Plus(Num(1), backoff.jitter)))
                /\ Leq(Num(backoff'.delay), backoff.maxDelay)]_vars

\* The sockets that are opening or open and still have the handlers of the
\* session attached.
LiveSockets ==
    {i \in DOMAIN sockets :
        sockets[i].attached /\ sockets[i].readyState \in {"CONNECTING", "OPEN"}}

\* C36: the session never has two sockets, opening or open, whose handlers
\* can change its state.
C36_OneLiveSocket == Cardinality(LiveSockets) <= 1

\* The attempts that failed: their socket closed, or their promise was
\* rejected.
FailedAttempts ==
    {i \in DOMAIN sockets :
        sockets[i].readyState = "CLOSED" \/ sockets[i].promise = "rejected"}

\* C37: every failed attempt counts once: the attempt count never exceeds the
\* number of attempts that failed, and the session is Failed only after
\* maxAttempts attempts failed.
C37_OneCountPerFailure ==
    /\ attempts <= Cardinality(FailedAttempts)
    /\ state = FAILED => Cardinality(FailedAttempts) >= maxAttempts

\* C38: frames go to the socket in the order in which they were handed to
\* send(): a frame handed to send() while earlier frames wait in the outbox
\* is not written ahead of them, and of the frames one task hands to send()
\* those written are the first ones (after a frame that had to be queued
\* again, none is written).
C38_SendOrder ==
    [][/\ \A p \in Payloads, throws \in Throws :
             (Send(p, throws) /\ messageQueue # <<>>) => wire' = <<>>
       /\ LET written == SelectSeq(wire', LAMBDA f : f # AuthFrame)
          IN  written = SubSeq(handed', 1, Len(written))]_vars

\* ------------------------------------------------------------------ outbox
\* send() on a session that reconnects: one call of connect(), the sockets of
\* its attempt and of one reconnection attempt.
OutboxSockets == 2

NextOutbox ==
    \/ ConnectWithin(SendCalls, OutboxSockets)
    \/ Disconnect
    \/ \E p \in Payloads, throws \in ThrowsOf(1) : Send(p, throws)
    \/ \E i \in DOMAIN sockets : SocketOpen(i)
    \/ \E i \in DOMAIN sockets : SocketFail(i)
    \/ \E i \in DOMAIN sockets, code \in CloseCodes, err \in BOOLEAN :
          SocketClose(i, code, err)
    \/ \E i \in DOMAIN sockets, type \in AuthFrames,
          throws \in ThrowsOf(IF messageQueue = <<>> THEN 1 ELSE Len(messageQueue)) :
          SocketMessageWith(i, type, throws)
    \/ \E i \in DOMAIN sockets : ConnectionTimeout(i)
    \/ \E i \in DOMAIN sockets : AuthTimeout(i)
    \/ ReconnectTimerWithin(OutboxSockets)
    \/ \E stale \in BOOLEAN, throws \in ThrowsOf(1) : HeartbeatWith(stale, throws)

SpecOutbox == Init /\ [][NextOutbox]_vars

\* How many times frame f occurs in the sequence q.
Occurrences(q, f) == Cardinality({k \in DOMAIN q : q[k] = f})

\* The frames that send() wrote to its socket in the current task (the
\* credentials of the handshake go to the socket without send()).
Written == SelectSeq(wire, LAMBDA f : f # AuthFrame)

\* C39: no frame handed to send() is lost or duplicated. In every task, the
\* frames waiting in the outbox before it together with the frames newly
\* handed to send() are, after it, each either written once or waiting once
\* in the outbox, except the oldest entry of a full outbox that a newly
\* queued frame evicts; the flush on reaching Connected hands exactly the
\* queued frames to send(); and disconnect(), a closing socket and a
\* reconnection attempt leave the outbox as it is.
C39_NoLossNoDuplicate ==
    [][LET flushed == state # CONNECTED /\ state' = CONNECTED /\ messageQueue # <<>>
           fresh   == IF flushed THEN <<>> ELSE handed'
           evicted == /\ Len(messageQueue) >= MaxQueueSize
                      /\ Len(fresh) = 1
                      /\ Written' = <<>>
           frames  == {messageQueue[k] : k \in DOMAIN messageQueue}
                        \cup {handed'[k] : k \in DOMAIN handed'}
                        \cup {Written'[k] : k \in DOMAIN Written'}
                        \cup {messageQueue'[k] : k \in DOMAIN messageQueue'}
       IN  /\ flushed => handed' = messageQueue
           /\ Len(fresh) <= 1
           /\ \A f \in frames :
                 Occurrences(Written', f) + Occurrences(messageQueue', f)
                   = Occurrences(messageQueue, f) + Occurrences(fresh, f)
                       - (IF evicted /\ f = Head(messageQueue) THEN 1 ELSE 0)
           /\ (Disconnect \/ ReconnectTimer
                  \/ \E i \in DOMAIN sockets, code \in CloseCodes, err \in BOOLEAN :
                        SocketClose(i, code, err))
                 => messageQueue' = messageQueue]_vars

\* The session reconnected with two frames in its outbox; in the flush the
\* write of the first failed: it waits in the outbox, the second is written.
C39_Witness ==
    /\ Len(sockets) = 2
    /\ state = CONNECTED
    /\ handed = <<Message(1), Message(2)>>
    /\ Written = <<Message(2)>>
    /\ messageQueue = <<Message(1)>>

\* C40: unsubscribing twice changes nothing: unstream(cb) on a channel that
\* has no Stream of cb (the second call of the function stream(cb) returned
\* included) leaves the channels and the outbox as they are and hands no
\* frame to the session; an unsubscribe frame is handed only by the
\* unstream that takes the streams of the channel from some to none.
C40_UnsubscribeIdempotent ==
    [][\A c \in DOMAIN chans, cb \in Callbacks :
          Unstream(c, cb)
          => /\ StreamsOf(chans[c].streams, cb) = 0
                => /\ chans' = chans
                   /\ handed' = <<>>
                   /\ wire' = <<>>
                   /\ messageQueue' = messageQueue
             /\ handed' # <<>>
                => /\ handed' = <<UnsubscribeFrame(chans[c].name)>>
                   /\ chans[c].streams # <<>>
                   /\ chans'[c].streams = <<>>]_vars

====
